---- MODULE Spec2Model ----
(***************************************************************************)
(* Incremental ingestion of the ONS monthly curtailment files into the     *)
(* ClickHouse table: the watermark-filtered load                            *)
(* (shared/handlers/clickhouse_handler.py), the manifest                    *)
(* (shared/handlers/manifest.py), the daily auto-corrective flow            *)
(* (pipelines/curtailment/solar_conjunto.py) and the bulk backfill flow     *)
(* (pipelines/curtailment/backfill.py, backfill_solar.py).                  *)
(*                                                                         *)
(* A datetime is a record [year, month, day, hour]; a period ("YYYY-MM")    *)
(* is a record [year, month].                                               *)
(***************************************************************************)
EXTENDS Integers, Sequences, FiniteSets, Bags, TLC

VARIABLES
    now,        \* wall clock: what datetime.now() returns
    source,     \* Object Store: period -> number of rows ONS has published in that month's file
    store,      \* Column Store table: bag of rows [din_instante, source_file]
    manifest,   \* ManifestManager.data as persisted: period -> [downloads, last_download, last_md5]
    disk,       \* the manifest file on disk, where a _save in progress is modelled (SpecSave)
    local,      \* bulk DATA_DIR: period -> [date, n] of the versioned local copy (date 0: none)
    run,        \* the flow invocation in progress (pc, mode, arguments, plan, counters)
    hist,       \* history of the loads and runs, read only by the properties
    planIn,     \* planner inputs (last_date, today, start_month, end_month, s3_files)
    planOut,    \* planner outputs
    loaders     \* loads in progress side by side, each between its watermark read and its insert

vars == <<now, source, store, manifest, disk, local, run, hist, planIn, planOut, loaders>>

-----------------------------------------------------------------------------
(* Calendar: what datetime does.                                           *)

DT(y, m, d, h) == [year |-> y, month |-> m, day |-> d, hour |-> h]

\* Python's None where a datetime is expected (no valid datetime has year 0).
None == DT(0, 1, 1, 0)

IsNone(d) == d.year = 0

\* What max() returns over an empty non-nullable DateTime column ("data invalida (1970)").
Epoch == DT(1970, 1, 1, 0)

IsLeap(y) == (y % 4 = 0 /\ y % 100 # 0) \/ y % 400 = 0

DaysInMonth(y, m) ==
    IF m = 2 THEN (IF IsLeap(y) THEN 29 ELSE 28)
    ELSE IF m \in {4, 6, 9, 11} THEN 30 ELSE 31

\* Order-preserving number of a datetime (datetime comparison is lexicographic).
Key(d) == ((d.year * 12 + (d.month - 1)) * 31 + (d.day - 1)) * 24 + d.hour

NextDay(d) ==
    IF d.day < DaysInMonth(d.year, d.month) THEN [d EXCEPT !.day = d.day + 1]
    ELSE IF d.month < 12 THEN [d EXCEPT !.day = 1, !.month = d.month + 1]
    ELSE [d EXCEPT !.day = 1, !.month = 1, !.year = d.year + 1]

\* d + timedelta(hours = h), for 0 <= h <= 24.
AddHours(d, h) ==
    IF d.hour + h < 24 THEN [d EXCEPT !.hour = d.hour + h]
    ELSE [NextDay(d) EXCEPT !.hour = d.hour + h - 24]

\* America/Sao_Paulo has been UTC-3 without daylight saving since 2019.
UtcOffsetHours == 3

ToUTCTwice(d) == AddHours(AddHours(d, UtcOffsetHours), UtcOffsetHours)

\* replace_time_zone('America/Sao_Paulo').convert_time_zone('UTC')
ToUTC(d) == AddHours(d, UtcOffsetHours)

\* strftime('%Y-%m') / toYYYYMM
MonthOf(d) == [year |-> d.year, month |-> d.month]

YM(p) == p.year * 100 + p.month

NextMonth(p) ==
    IF p.month = 12 THEN [p EXCEPT !.year = p.year + 1, !.month = 1]
    ELSE [p EXCEPT !.month = p.month + 1]

\* strftime('%Y%m%d')
DateOf(d) == (d.year * 100 + d.month) * 100 + d.day

-----------------------------------------------------------------------------
(* Window planner, daily mode: get_months_to_process.                       *)

SOLAR_DATA_START == DT(2024, 4, 1, 0)

MinValidYear == 2020

RECURSIVE MonthsWhile(_, _)
\* the while loop: current keeps its day and time of day, only year/month move
MonthsWhile(current, end) ==
    IF Key(current) <= Key(end)
    THEN <<MonthOf(current)>> \o MonthsWhile(NextMonth(current), end)
    ELSE <<>>

PlanStartOnlyEpoch(last_date) ==
    IF IsNone(last_date) \/ last_date.year = Epoch.year
    THEN SOLAR_DATA_START
    ELSE [last_date EXCEPT !.day = 1]

PlanStart(last_date) ==
    IF IsNone(last_date) \/ last_date.year < MinValidYear
    THEN SOLAR_DATA_START
    ELSE [last_date EXCEPT !.day = 1]

get_months_to_process(last_date_in_db, today) ==
    MonthsWhile(PlanStart(last_date_in_db), today)

-----------------------------------------------------------------------------
(* Window planner, bulk mode: the head of backfill_restricao /              *)
(* backfill_restricao_solar.  An S3 key is [year, month, alt]: the year and *)
(* month FILE_PATTERN extracts, alt = 0 for the canonical key and 1 for a   *)
(* second key of the listing whose name matches the same year and month (it *)
(* sorts after the canonical keys).                                         *)

NoMonth == [year |-> 0, month |-> 0]

S3Key(y, m, a) == [year |-> y, month |-> m, alt |-> a]

KeyPeriod(k) == [year |-> k.year, month |-> k.month]

\* order of the key strings, as sorted() sees them
KeyRank(k) == (k.alt * 10000 + k.year) * 100 + k.month

RECURSIVE SortKeys(_)
SortKeys(S) ==
    IF S = {} THEN <<>>
    ELSE LET k == CHOOSE x \in S : \A y \in S : KeyRank(x) <= KeyRank(y)
         IN <<k>> \o SortKeys(S \ {k})

ResolveEndMonthNoWrap(end_month, today) ==
    IF end_month = NoMonth
    THEN [year |-> today.year, month |-> today.month - 1]
    ELSE end_month

\* end_month: the previous calendar month when unset
ResolveEndMonth(end_month, today) ==
    IF end_month = NoMonth
    THEN IF today.month = 1 THEN [year |-> today.year - 1, month |-> 12]
         ELSE [year |-> today.year, month |-> today.month - 1]
    ELSE end_month

InRangeNoStart(k, start_month, end_month, today) ==
    /\ YM(KeyPeriod(k)) <= YM(end_month)
    /\ KeyPeriod(k) # MonthOf(today)

InRangeKeepCurrent(k, start_month, end_month, today) ==
    /\ YM(start_month) <= YM(KeyPeriod(k))
    /\ YM(KeyPeriod(k)) <= YM(end_month)

InRangeExclusiveEnd(k, start_month, end_month, today) ==
    /\ YM(start_month) <= YM(KeyPeriod(k))
    /\ YM(KeyPeriod(k)) < YM(end_month)
    /\ KeyPeriod(k) # MonthOf(today)

\* the filter of the listing loop: in the range and not the current month
InRange(k, start_month, end_month, today) ==
    /\ YM(start_month) <= YM(KeyPeriod(k))
    /\ YM(KeyPeriod(k)) <= YM(end_month)
    /\ KeyPeriod(k) # MonthOf(today)

\* sorted(files_to_process); empty when the listing is empty (early return)
files_to_process(s3_files, start_month, end_month, today) ==
    SortKeys({k \in s3_files :
                InRange(k, start_month, ResolveEndMonth(end_month, today), today)})

-----------------------------------------------------------------------------
(* The world of the pipeline model: two monthly files of the solar dataset, *)
(* the rows ONS appends to them (naive local time, UTC-3), and the instants *)
(* (UTC, the clock of the scheduler) at which flows are started.            *)

April == [year |-> 2024, month |-> 4]

May == [year |-> 2024, month |-> 5]

Periods == {April, May}

\* rows of each file in the order ONS appends them (din_instante, local time)
FileRows(p) ==
    IF p = April THEN <<DT(2024, 4, 10, 12), DT(2024, 4, 30, 22)>>
    ELSE <<DT(2024, 5, 1, 0), DT(2024, 5, 1, 5)>>

Instants == {DT(2024, 5, 1, 9), DT(2024, 5, 2, 9), DT(2024, 6, 1, 9)}

\* bound on the number of flow invocations
MaxRuns == 2

\* the file of period p when it holds its first n rows
FileContent(p, n) == {FileRows(p)[i] : i \in 1..n}

\* number of rows published for p (no object for a month outside Periods)
SourceN(src, p) == IF p \in Periods THEN src[p] ELSE 0

\* hashlib.md5 of the bytes of the file of period p holding its first n rows
Md5(p, n) == p.month * 10 + n

\* versioned local file name: original name + download date
FileName(p, date) == [year |-> p.year, month |-> p.month, date |-> date]

\* value of the _source_file column of a row inserted without that column
NoFileName == [year |-> 0, month |-> 0, date |-> 0]

-----------------------------------------------------------------------------
(* Column Store.                                                           *)

Row(t, f) == [din_instante |-> t, source_file |-> f]

\* SELECT max(din_instante) over the rows R; onEmpty is what the driver hands
\* back for an empty result (NULL or the 1970 default)
MaxOf(R, onEmpty) ==
    IF R = {} THEN onEmpty
    ELSE LET r == CHOOSE x \in R : \A y \in R : Key(x.din_instante) >= Key(y.din_instante)
         IN r.din_instante

\* SELECT max(din_instante) FROM table
GlobalMax(st, onEmpty) == MaxOf(BagToSet(st), onEmpty)

\* SELECT max(din_instante) FROM table WHERE toYYYYMM(din_instante) = ym
ScopedMax(st, ym, onEmpty) ==
    MaxOf({r \in BagToSet(st) : YM(MonthOf(r.din_instante)) = ym}, onEmpty)

InsertDfReplace(st, rows) == SetToBag(rows)

\* client.insert_df: appends the rows of the frame to the table
InsertDf(st, rows) == st (+) SetToBag(rows)

-----------------------------------------------------------------------------
(* Incremental loader: ClickHouseHandler.insert_parquet_incremental.        *)

\* the frame after the BRT -> UTC conversion
ConvertedFrame(file) == {ToUTC(t) : t \in file}

\* df.filter(din_instante > max_date_utc), applied only when max_date is truthy
FilteredFrame(file, max_date) ==
    IF IsNone(max_date) THEN ConvertedFrame(file)
    ELSE {t \in ConvertedFrame(file) : Key(t) > Key(max_date)}

\* df_pandas: taken from df before the filter and before _source_file is added
PandasFrame(file, source_file, max_date) ==
    {Row(t, NoFileName) : t \in ConvertedFrame(file)}

insert_parquet_incrementalNoEarlyReturn(file, source_file, max_date) ==
    [rows |-> Cardinality(FilteredFrame(file, max_date)),
     inserted |-> PandasFrame(file, source_file, max_date)]

\* result of the call: the count it returns and the rows it hands to insert_df
insert_parquet_incremental(file, source_file, max_date) ==
    IF FilteredFrame(file, max_date) = {}
    THEN [rows |-> 0, inserted |-> {}]
    ELSE [rows |-> Cardinality(FilteredFrame(file, max_date)),
          inserted |-> PandasFrame(file, source_file, max_date)]

-----------------------------------------------------------------------------
(* Manifest: ManifestManager.  data maps a period key to                    *)
(* [downloads, last_download, last_md5].                                    *)

EmptyManifest == [p \in {} |-> 0]

add_month_entryKeepMd5(data, year_month, download_info, at) ==
    LET old == IF year_month \in DOMAIN data THEN data[year_month].downloads ELSE <<>>
        rec == [downloads |-> Append(old, [download_info EXCEPT !.ingested_at = at]),
                last_download |-> download_info.download_date,
                last_md5 |-> IF year_month \in DOMAIN data THEN data[year_month].last_md5
                             ELSE download_info.md5]
    IN [p \in DOMAIN data \cup {year_month} |-> IF p = year_month THEN rec ELSE data[p]]

add_month_entryReplace(data, year_month, download_info, at) ==
    LET rec == [downloads |-> <<[download_info EXCEPT !.ingested_at = at]>>,
                last_download |-> download_info.download_date,
                last_md5 |-> download_info.md5]
    IN [p \in DOMAIN data \cup {year_month} |-> IF p = year_month THEN rec ELSE data[p]]

add_month_entry(data, year_month, download_info, at) ==
    LET old == IF year_month \in DOMAIN data THEN data[year_month].downloads ELSE <<>>
        rec == [downloads |-> Append(old, [download_info EXCEPT !.ingested_at = at]),
                last_download |-> download_info.download_date,
                last_md5 |-> download_info.md5]
    IN [p \in DOMAIN data \cup {year_month} |-> IF p = year_month THEN rec ELSE data[p]]

is_processed_todayUnchanged(data, year_month, today) ==
    /\ year_month \in DOMAIN data
    /\ data[year_month].last_download = today
    /\ data[year_month].last_md5 = Md5(year_month, Len(FileRows(year_month)))

is_processed_today(data, year_month, today) ==
    /\ year_month \in DOMAIN data
    /\ data[year_month].last_download = today

get_month_history(data, year_month) ==
    IF year_month \in DOMAIN data THEN data[year_month].downloads ELSE <<>>

\* self.data[year_month].get('last_md5'): None (0) for an entry without the field
LastMd5(entry) == IF "last_md5" \in DOMAIN entry THEN entry.last_md5 ELSE 0

detect_changesAnyEntry(data, year_month, new_md5) ==
    /\ year_month \in DOMAIN data
    /\ LastMd5(data[year_month]) # new_md5

\* True when a fingerprint is recorded for the period and differs from new_md5
\* (no flow calls it)
detect_changes(data, year_month, new_md5) ==
    /\ year_month \in DOMAIN data
    /\ LastMd5(data[year_month]) # 0
    /\ LastMd5(data[year_month]) # new_md5

\* the key of a per-date entry, 'YYYY-MM-DD' (a period key is 'YYYY-MM')
DateKey(y, m, d) == [year |-> y, month |-> m, day |-> d]

\* the file_info dict handed to add_entry
FileInfo(date, n, rows) ==
    [file_name |-> date, md5 |-> Md5(date, n), rows |-> rows, status |-> "success",
     ingested_at |-> None]

\* self.data[date] = {**file_info, 'ingested_at': now}; then _save
add_entry(data, date, file_info, at) ==
    [k \in DOMAIN data \cup {date} |->
        IF k = date THEN [file_info EXCEPT !.ingested_at = at] ELSE data[k]]

\* entry.get('rows', 0)
RowsOf(entry) == IF "rows" \in DOMAIN entry THEN entry.rows ELSE 0

RECURSIVE SumRows(_, _)
SumRows(data, K) ==
    IF K = {} THEN 0
    ELSE LET k == CHOOSE x \in K : TRUE IN RowsOf(data[k]) + SumRows(data, K \ {k})

\* order of the key strings ('YYYY-MM' sorts before the 'YYYY-MM-DD' of its month)
KeyStringRank(k) == (k.year * 100 + k.month) * 100 + (IF "day" \in DOMAIN k THEN k.day ELSE 0)

\* get_stats (the sizes are not modelled)
get_stats(data) ==
    IF DOMAIN data = {}
    THEN [total_files |-> 0, total_rows |-> 0, date_range |-> <<>>]
    ELSE [total_files |-> Cardinality(DOMAIN data),
          total_rows |-> SumRows(data, DOMAIN data),
          date_range |->
            <<CHOOSE a \in DOMAIN data : \A b \in DOMAIN data : KeyStringRank(a) <= KeyStringRank(b),
              CHOOSE a \in DOMAIN data : \A b \in DOMAIN data : KeyStringRank(a) >= KeyStringRank(b)>>]

\* the download_info dict handed to add_month_entry
DownloadInfo(p, date, n, rows, status) ==
    [file_name |-> FileName(p, date), download_date |-> date, md5 |-> Md5(p, n),
     rows_inserted |-> rows, status |-> status, ingested_at |-> None]

\* the manifest file: absent, or holding a complete JSON text of data, or
\* holding the partial text of a dump that has not finished
NoFile == [exists |-> FALSE, text |-> "none", data |-> EmptyManifest]

\* json.load succeeds on the file (an absent file is not opened)
Loadable(f) == ~f.exists \/ f.text = "json"

\* ManifestManager._load
_load(f) == IF f.exists THEN f.data ELSE EmptyManifest

-----------------------------------------------------------------------------
(* Flow state.                                                             *)

\* what the download task hands to the insert task: the local file (its rows, its
\* date, whether it has the required columns)
NoInfo == [n |-> 0, date |-> 0, cols |-> TRUE]

IdleRun ==
    [pc |-> "idle", mode |-> "none", force |-> FALSE,
     start_month |-> NoMonth, end_month |-> NoMonth, today |-> None,
     plan |-> <<>>, i |-> 1, info |-> NoInfo, attempt |-> 0,
     success_count |-> 0, skip_count |-> 0, error_count |-> 0,
     total_rows |-> 0, results |-> 0, returned |-> "none"]

NoLoad ==
    [valid |-> FALSE, mode |-> "none", period |-> NoMonth, file |-> {},
     max_date |-> None, present |-> FALSE, rows |-> 0, written |-> {}]

NoCur ==
    [src0 |-> [p \in Periods |-> 0], wm0 |-> None, man0 |-> [p \in Periods |-> 0],
     added |-> 0, failed |-> {}, broken |-> {}, ok |-> {}, repeat |-> FALSE, gap |-> {}]

NoPlanIn ==
    [kind |-> "none", last_date |-> None, today |-> None,
     start_month |-> NoMonth, end_month |-> NoMonth, s3_files |-> {}]

\* no load is running beside the flow
NoLoaders == <<>>

NoPlanOut == [kind |-> "none", months |-> <<>>, files |-> <<>>, end_month |-> NoMonth]

Init ==
    /\ now = DT(2024, 5, 1, 9)
    /\ source = [p \in Periods |-> 0]
    /\ store = EmptyBag
    /\ manifest = EmptyManifest
    /\ disk = NoFile
    /\ loaders = NoLoaders
    /\ local = [p \in Periods |-> NoInfo]
    /\ run = IdleRun
    /\ hist = [runs |-> 0, load |-> NoLoad, fail |-> "none", wrote |-> {}, cur |-> NoCur]
    /\ planIn = NoPlanIn
    /\ planOut = NoPlanOut

ManLen(data, p) == Len(get_month_history(data, p))

\* the period the loop is at
CurKey == run.plan[run.i]

CurPeriod == KeyPeriod(CurKey)

AdvanceHalt(r) ==
    [r EXCEPT !.i = r.i + 1, !.info = NoInfo, !.attempt = 0,
              !.pc = IF r.i + 1 > Len(r.plan) \/ ~r.info.cols
                     THEN "summary" ELSE "download"]

\* the loop moves to the next planned period, or to the summary
Advance(r) ==
    [r EXCEPT !.i = r.i + 1, !.info = NoInfo, !.attempt = 0,
              !.pc = IF r.i + 1 > Len(r.plan) THEN "summary" ELSE "download"]

\* S3Handler.list_files: the keys of the months that have an object
Listing(src) == {S3Key(p.year, p.month, 0) : p \in {q \in Periods : src[q] > 0}}

\* every row of the file is in the table already
AllPresent(st, file) ==
    \A t \in ConvertedFrame(file) : \E r \in BagToSet(st) : r.din_instante = t

-----------------------------------------------------------------------------
(* History bookkeeping (read by the properties only).                       *)

\* the watermark as the flows use it: None when absent or before 2020
Effective(d) == IF IsNone(d) \/ d.year < MinValidYear THEN None ELSE d

\* the invocation being started repeats the one that just ended: same flow and
\* arguments, same clock, same source, and that one ended without a failed period
Repeats(mode, start_month, end_month, force) ==
    /\ run.pc = "done"
    /\ run.mode = mode /\ run.force = force
    /\ run.start_month = start_month /\ run.end_month = end_month
    /\ run.today = now
    /\ hist.cur.src0 = source
    /\ hist.cur.failed = {}

\* periods of the daily invocation that just ended which failed (their file being
\* there) while a later period succeeded
GapLeft ==
    IF run.pc = "done" /\ run.mode = "daily"
    THEN {p \in hist.cur.failed \cap Periods :
            /\ hist.cur.src0[p] > 0
            /\ \E q \in hist.cur.ok : YM(q) > YM(p)}
    ELSE {}

StartHist(wm, mode, start_month, end_month, force) ==
    [runs |-> hist.runs + 1,
     load |-> NoLoad,
     fail |-> "none",
     wrote |-> {},
     cur |-> [src0 |-> source, wm0 |-> Effective(wm),
              man0 |-> [p \in Periods |-> ManLen(manifest, p)],
              added |-> 0, failed |-> {}, broken |-> {}, ok |-> {},
              repeat |-> Repeats(mode, start_month, end_month, force),
              gap |-> GapLeft]]

\* a step that is not a load
Quiet == [hist EXCEPT !.load = NoLoad, !.fail = "none", !.wrote = {}]

LoadHist(mode, p, file, max_date, res) ==
    [hist EXCEPT !.load = [valid |-> TRUE, mode |-> mode, period |-> p, file |-> file,
                           max_date |-> max_date, present |-> AllPresent(store, file),
                           rows |-> res.rows, written |-> res.inserted],
                 !.fail = "none", !.wrote = {},
                 !.cur.added = @ + Cardinality(res.inserted),
                 !.cur.ok = @ \cup {p}]

\* the period fails; cause is what raised
FailHist(p, cause) ==
    [hist EXCEPT !.load = NoLoad, !.fail = cause, !.wrote = {}, !.cur.failed = @ \cup {p},
                 !.cur.broken = IF cause = "schema" THEN @ \cup {p} ELSE @]

\* an attempt of a task raised and the task is retried
RetryHist(cause) == [hist EXCEPT !.load = NoLoad, !.fail = cause]

\* the flow raises before its loop
AbortHist(mode, cause) ==
    [StartHist(None, mode, NoMonth, NoMonth, FALSE) EXCEPT !.fail = cause]

-----------------------------------------------------------------------------
(* Environment.                                                            *)

\* time passes between flow invocations
Tick(t) ==
    /\ run.pc \in {"idle", "done"}
    /\ Key(t) > Key(now)
    /\ now' = t
    /\ hist' = Quiet
    /\ UNCHANGED <<loaders, disk, source, store, manifest, local, run, planIn, planOut>>

\* ONS appends the next row to the file of period p
Publish(p) ==
    /\ run.pc \in {"idle", "done"}
    /\ source[p] < Len(FileRows(p))
    /\ Key(ToUTC(FileRows(p)[source[p] + 1])) <= Key(now)
    /\ source' = [source EXCEPT ![p] = @ + 1]
    /\ hist' = Quiet
    /\ UNCHANGED <<loaders, disk, now, store, manifest, local, run, planIn, planOut>>

-----------------------------------------------------------------------------
(* Daily flow: daily_restricao_solar_tm and its tasks.                      *)

MonthKeys(months) == [j \in 1..Len(months) |-> S3Key(months[j].year, months[j].month, 0)]

\* flow start: handlers, manifest, SELECT max(din_instante), get_months_to_process
StartDaily ==
    /\ run.pc \in {"idle", "done"}
    /\ hist.runs < MaxRuns
    /\ \E onEmpty \in {None, Epoch} :
         LET last_date == GlobalMax(store, onEmpty)
             plan == MonthKeys(get_months_to_process(last_date, now))
         IN /\ run' = [IdleRun EXCEPT !.pc = IF plan = <<>> THEN "summary" ELSE "download",
                                      !.mode = "daily", !.today = now, !.plan = plan]
            /\ hist' = StartHist(last_date, "daily", NoMonth, NoMonth, FALSE)
    /\ UNCHANGED <<loaders, disk, now, source, store, manifest, local, planIn, planOut>>

\* download_s3_task succeeds: old copy unlinked, the object fetched afresh
DailyDownload ==
    /\ run.pc = "download" /\ run.mode = "daily"
    /\ SourceN(source, CurPeriod) > 0
    /\ \E cols \in BOOLEAN :
         run' = [run EXCEPT !.pc = "insert", !.attempt = 0,
                            !.info = [n |-> source[CurPeriod], date |-> DateOf(run.today),
                                      cols |-> cols]]
    /\ hist' = Quiet
    /\ UNCHANGED <<loaders, disk, now, source, store, manifest, local, planIn, planOut>>

\* insert_clickhouse_task succeeds, then the rest of process_month_task and of the loop body
DailyInsert ==
    /\ run.pc = "insert" /\ run.mode = "daily"
    /\ run.info.cols
    /\ \E onEmpty \in {None, Epoch} :
         LET p == CurPeriod
             file == FileContent(p, run.info.n)
             max_date == GlobalMax(store, onEmpty)
             res == insert_parquet_incremental(file, FileName(p, run.info.date), max_date)
         IN /\ store' = InsertDf(store, res.inserted)
            /\ manifest' =
                 IF res.rows > 0
                 THEN add_month_entry(manifest, p,
                        DownloadInfo(p, run.info.date, run.info.n, res.rows, "absent"), now)
                 ELSE manifest
            /\ run' = Advance([run EXCEPT !.results = @ + 1,
                                          !.success_count = @ + 1,
                                          !.total_rows = @ + res.rows])
            /\ hist' = LoadHist("daily", p, file, Effective(max_date), res)
    /\ UNCHANGED <<loaders, disk, now, source, local, planIn, planOut>>

-----------------------------------------------------------------------------
(* Bulk flow: backfill_restricao_solar (backfill_restricao is the same flow *)
(* for the wind dataset) and its tasks.                                     *)

\* flow start on the listing s3_files: end_month default, handlers, manifest,
\* files_to_process
StartBulkOn(s3_files, start_month, end_month, force) ==
    /\ run.pc \in {"idle", "done"}
    /\ hist.runs < MaxRuns
    /\ LET plan == files_to_process(s3_files, start_month, end_month, now)
       IN run' = [IdleRun EXCEPT !.pc = IF plan = <<>> THEN "done" ELSE "download",
                                 !.mode = "bulk", !.today = now, !.plan = plan,
                                 !.force = force, !.start_month = start_month,
                                 !.end_month = end_month]
    /\ hist' = StartHist(None, "bulk", start_month, end_month, force)
    /\ UNCHANGED <<loaders, disk, now, source, store, manifest, local, planIn, planOut>>

\* flow start when the listing holds one key for each published month
StartBulk(start_month, end_month, force) ==
    StartBulkOn(Listing(source), start_month, end_month, force)

SkipsTodayIgnoreForce == is_processed_today(manifest, CurPeriod, DateOf(run.today))

\* process_month: the period was handled today and force is off
SkipsToday == ~run.force /\ is_processed_today(manifest, CurPeriod, DateOf(run.today))

\* S3Handler.download_file: a local copy of today exists and force is off
LocalCopyUsed == local[CurPeriod].date = DateOf(run.today) /\ ~run.force

BulkSkip ==
    /\ run.pc = "download" /\ run.mode = "bulk"
    /\ SkipsToday
    /\ run' = Advance([run EXCEPT !.results = @ + 1, !.skip_count = @ + 1])
    /\ hist' = Quiet
    /\ UNCHANGED <<loaders, disk, now, source, store, manifest, local, planIn, planOut>>

\* download_file_task succeeds (from S3, or the existing local copy is taken)
BulkDownload ==
    /\ run.pc = "download" /\ run.mode = "bulk"
    /\ ~SkipsToday
    /\ IF LocalCopyUsed
       THEN /\ run' = [run EXCEPT !.pc = "insert", !.attempt = 0,
                                  !.info = local[CurPeriod]]
            /\ local' = local
       ELSE /\ SourceN(source, CurPeriod) > 0
            /\ \E cols \in BOOLEAN :
                 LET info == [n |-> source[CurPeriod], date |-> DateOf(run.today),
                              cols |-> cols]
                 IN /\ local' = [local EXCEPT ![CurPeriod] = info]
                    /\ run' = [run EXCEPT !.pc = "insert", !.attempt = 0, !.info = info]
    /\ hist' = Quiet
    /\ UNCHANGED <<loaders, disk, now, source, store, manifest, planIn, planOut>>

\* insert_clickhouse_task succeeds, then the manifest append and the loop's counters
BulkInsert ==
    /\ run.pc = "insert" /\ run.mode = "bulk"
    /\ run.info.cols
    /\ \E onEmpty \in {None, Epoch} :
         LET p == CurPeriod
             file == FileContent(p, run.info.n)
             max_date == Effective(ScopedMax(store, YM(p), onEmpty))
             res == insert_parquet_incremental(file, FileName(p, run.info.date), max_date)
         IN /\ store' = InsertDf(store, res.inserted)
            /\ manifest' = add_month_entry(manifest, p,
                             DownloadInfo(p, run.info.date, run.info.n, res.rows, "success"), now)
            /\ run' = Advance([run EXCEPT !.results = @ + 1,
                                          !.success_count = @ + 1,
                                          !.total_rows = @ + res.rows])
            /\ hist' = LoadHist("bulk", p, file, max_date, res)
    /\ UNCHANGED <<loaders, disk, now, source, local, planIn, planOut>>

-----------------------------------------------------------------------------
(* Failures of a period (retries exhausted) and the end of a flow.          *)

DownloadFailKeepFile ==
    /\ run.pc = "download"
    /\ run.mode = "bulk" => (~SkipsToday /\ ~LocalCopyUsed)
    /\ local' = IF run.mode = "bulk"
                THEN [local EXCEPT ![CurPeriod] = [date |-> DateOf(run.today), n |-> 0,
                                                  cols |-> TRUE]]
                ELSE local
    /\ run' = Advance([run EXCEPT !.error_count = IF run.mode = "bulk" THEN @ + 1 ELSE @])
    /\ hist' = FailHist(CurPeriod, "download")
    /\ UNCHANGED <<loaders, disk, now, source, store, manifest, planIn, planOut>>

\* the download task fails: the exception reaches the loop's except clause
DownloadFail ==
    /\ run.pc = "download"
    /\ run.mode = "bulk" => (~SkipsToday /\ ~LocalCopyUsed)
    /\ local' = IF run.mode = "bulk" /\ local[CurPeriod].date = DateOf(run.today)
                THEN [local EXCEPT ![CurPeriod] = NoInfo]
                ELSE local
    /\ run' = Advance([run EXCEPT !.error_count = IF run.mode = "bulk" THEN @ + 1 ELSE @])
    /\ hist' = FailHist(CurPeriod, "download")
    /\ UNCHANGED <<loaders, disk, now, source, store, manifest, planIn, planOut>>

\* the retries of insert_clickhouse_task (retries=2, no retry condition)
InsertRetries == 2

\* the watermark the insert task reads for the period the loop is at
CurMaxDate(onEmpty) ==
    IF run.mode = "daily" THEN GlobalMax(store, onEmpty)
    ELSE Effective(ScopedMax(store, YM(CurPeriod), onEmpty))

\* what can raise in an attempt of the insert task: the watermark query, the
\* required-column check, or insert_df when there are rows to insert
InsertRaises(cause) ==
    \/ cause = "watermark"
    \/ cause = "schema" /\ ~run.info.cols
    \/ /\ cause = "insert" /\ run.info.cols
       /\ \E onEmpty \in {None, Epoch} :
            FilteredFrame(FileContent(CurPeriod, run.info.n), CurMaxDate(onEmpty)) # {}

FailCauses == {"watermark", "schema", "insert"}

\* an attempt of the insert task raises and the task runs again
InsertRetry ==
    /\ run.pc = "insert"
    /\ run.attempt < InsertRetries
    /\ \E cause \in FailCauses :
         /\ InsertRaises(cause)
         /\ hist' = RetryHist(cause)
    /\ run' = [run EXCEPT !.attempt = @ + 1]
    /\ UNCHANGED <<loaders, disk, now, source, store, manifest, local, planIn, planOut>>

InsertFailRecorded ==
    /\ run.pc = "insert"
    /\ run.attempt = InsertRetries
    /\ \E cause \in FailCauses :
         /\ InsertRaises(cause)
         /\ hist' = FailHist(CurPeriod, cause)
    /\ manifest' = add_month_entry(manifest, CurPeriod,
                      DownloadInfo(CurPeriod, run.info.date, run.info.n, 0, "error"), now)
    /\ run' = Advance([run EXCEPT !.error_count = IF run.mode = "bulk" THEN @ + 1 ELSE @])
    /\ UNCHANGED <<loaders, disk, now, source, store, local, planIn, planOut>>

\* the last attempt of the insert task raises before anything is written: the
\* exception reaches the loop's except clause
InsertFail ==
    /\ run.pc = "insert"
    /\ run.attempt = InsertRetries
    /\ \E cause \in FailCauses :
         /\ InsertRaises(cause)
         /\ hist' = FailHist(CurPeriod, cause)
    /\ run' = Advance([run EXCEPT !.error_count = IF run.mode = "bulk" THEN @ + 1 ELSE @])
    /\ UNCHANGED <<loaders, disk, now, source, store, manifest, local, planIn, planOut>>

\* the flow raises before its loop: ManifestManager(MANIFEST_PATH) cannot load
\* the file (either flow), or the daily flow's SELECT max(din_instante) raises
StartAbort(mode, cause) ==
    /\ run.pc \in {"idle", "done"}
    /\ hist.runs < MaxRuns
    /\ cause = "manifest" \/ (cause = "watermark" /\ mode = "daily")
    /\ run' = [IdleRun EXCEPT !.pc = "done", !.mode = mode, !.today = now,
                              !.returned = "raised"]
    /\ hist' = AbortHist(mode, cause)
    /\ UNCHANGED <<loaders, disk, now, source, store, manifest, local, planIn, planOut>>

\* the summary is logged and the flow returns its counters
Summarize ==
    /\ run.pc = "summary"
    /\ run' = [run EXCEPT !.pc = "done", !.returned = "summary"]
    /\ hist' = Quiet
    /\ UNCHANGED <<loaders, disk, now, source, store, manifest, local, planIn, planOut>>

-----------------------------------------------------------------------------

StartMonths == {April, May}

EndMonths == {NoMonth, April}

Next ==
    \/ \E t \in Instants : Tick(t)
    \/ \E p \in Periods : Publish(p)
    \/ StartDaily
    \/ DailyDownload
    \/ DailyInsert
    \/ \E s \in StartMonths, e \in EndMonths, f \in BOOLEAN : StartBulk(s, e, f)
    \/ BulkSkip
    \/ BulkDownload
    \/ BulkInsert
    \/ DownloadFail
    \/ InsertRetry
    \/ InsertFail
    \/ \E mode \in {"daily", "bulk"}, cause \in {"manifest", "watermark"} : StartAbort(mode, cause)
    \/ Summarize

Spec == Init /\ [][Next]_vars

-----------------------------------------------------------------------------
(* The planners on their own: the inputs are drawn from the sets below and  *)
(* one step applies the planner to them.                                    *)

PlanMonths ==
    {[year |-> 1970, month |-> 1], [year |-> 2019, month |-> 12],
     [year |-> 2023, month |-> 11], [year |-> 2024, month |-> 3],
     [year |-> 2024, month |-> 6], [year |-> 2024, month |-> 7]}

PlanDays == {1, 15, 28}

PlanHours == {0, 9, 14}

LastDates ==
    {None} \cup {DT(m.year, m.month, d, h) : m \in PlanMonths, d \in PlanDays, h \in PlanHours}

TodayMonths ==
    {[year |-> 2024, month |-> 3], [year |-> 2024, month |-> 7], [year |-> 2025, month |-> 1]}

Todays == {DT(m.year, m.month, d, h) : m \in TodayMonths, d \in PlanDays, h \in PlanHours}

BulkStarts ==
    {[year |-> 2023, month |-> 10], [year |-> 2024, month |-> 4],
     [year |-> 2024, month |-> 7], [year |-> 2025, month |-> 1]}

BulkEnds ==
    {NoMonth, [year |-> 2024, month |-> 3], [year |-> 2024, month |-> 6],
     [year |-> 2024, month |-> 7], [year |-> 2025, month |-> 2]}

BulkKeys ==
    {S3Key(2023, 12, 0), S3Key(2024, 6, 0), S3Key(2024, 6, 1),
     S3Key(2024, 7, 0), S3Key(2024, 12, 0), S3Key(2025, 1, 0)}

DailyInputs ==
    {[kind |-> "daily", last_date |-> w, today |-> t,
      start_month |-> NoMonth, end_month |-> NoMonth, s3_files |-> {}] :
        w \in LastDates, t \in Todays}

BulkInputs ==
    {[kind |-> "bulk", last_date |-> None, today |-> DT(m.year, m.month, d, 9),
      start_month |-> s, end_month |-> e, s3_files |-> L] :
        m \in TodayMonths, d \in PlanDays, s \in BulkStarts, e \in BulkEnds,
        L \in SUBSET BulkKeys}

InitPlan ==
    /\ now = DT(2024, 5, 1, 9)
    /\ source = [p \in Periods |-> 0]
    /\ store = EmptyBag
    /\ manifest = EmptyManifest
    /\ disk = NoFile
    /\ loaders = NoLoaders
    /\ local = [p \in Periods |-> NoInfo]
    /\ run = IdleRun
    /\ hist = [runs |-> 0, load |-> NoLoad, fail |-> "none", wrote |-> {}, cur |-> NoCur]
    /\ planIn \in DailyInputs \cup BulkInputs
    /\ planOut = NoPlanOut

ApplyDaily ==
    /\ planIn.kind = "daily" /\ planOut.kind = "none"
    /\ planOut' = [kind |-> "daily",
                   months |-> get_months_to_process(planIn.last_date, planIn.today),
                   files |-> <<>>, end_month |-> NoMonth]
    /\ UNCHANGED <<loaders, disk, now, source, store, manifest, local, run, hist, planIn>>

ApplyBulk ==
    /\ planIn.kind = "bulk" /\ planOut.kind = "none"
    /\ planOut' = [kind |-> "bulk", months |-> <<>>,
                   files |-> files_to_process(planIn.s3_files, planIn.start_month,
                                              planIn.end_month, planIn.today),
                   end_month |-> ResolveEndMonth(planIn.end_month, planIn.today)]
    /\ UNCHANGED <<loaders, disk, now, source, store, manifest, local, run, hist, planIn>>

NextPlan == ApplyDaily \/ ApplyBulk

SpecPlan == InitPlan /\ [][NextPlan]_vars

-----------------------------------------------------------------------------
(* The ManifestManager on its own: any sequence of its operations, with     *)
(* arguments of the documented formats.  planOut holds the value the last   *)
(* operation returned.                                                      *)

\* bound on the number of operations of a sequence
MaxOps == 4

ManDates == {20240501, 20240502}

DateKeys == {DateKey(2024, 4, 30), DateKey(2024, 5, 1)}

\* one call of a manager method: its name, arguments and return value are kept
CalledWith(name, args, result) ==
    /\ hist.runs < MaxOps
    /\ hist' = [hist EXCEPT !.runs = @ + 1]
    /\ planOut' = [kind |-> name, args |-> args, result |-> result]
    /\ UNCHANGED <<loaders, disk, now, source, store, local, run, planIn>>

Called(name, result) == CalledWith(name, <<>>, result)

CallAddMonthEntry(p, date, n) ==
    /\ manifest' = add_month_entry(manifest, p, DownloadInfo(p, date, n, n, "success"), now)
    /\ Called("add_month_entry", 0)

CallAddEntry(date, n) ==
    /\ manifest' = add_entry(manifest, date, FileInfo(date, n, n), now)
    /\ Called("add_entry", 0)

CallIsProcessedToday(p, date) ==
    /\ manifest' = manifest
    /\ Called("is_processed_today", is_processed_today(manifest, p, date))

CallDetectChanges(p, md5) ==
    /\ manifest' = manifest
    /\ CalledWith("detect_changes", [year_month |-> p, new_md5 |-> md5],
                  detect_changes(manifest, p, md5))

CallGetMonthHistory(p) ==
    /\ manifest' = manifest
    /\ Called("get_month_history", get_month_history(manifest, p))

CallGetStats ==
    /\ manifest' = manifest
    /\ Called("get_stats", get_stats(manifest))

NextMan ==
    \/ \E p \in Periods, date \in ManDates, n \in 1..2 : CallAddMonthEntry(p, date, n)
    \/ \E date \in DateKeys, n \in 1..2 : CallAddEntry(date, n)
    \/ \E p \in Periods, date \in ManDates : CallIsProcessedToday(p, date)
    \/ \E p \in Periods \cup DateKeys, n \in 1..2 : CallDetectChanges(p, Md5(p, n))
    \/ \E p \in Periods : CallGetMonthHistory(p)
    \/ CallGetStats

SpecMan == Init /\ [][NextMan]_vars

-----------------------------------------------------------------------------
(* add_month_entry and _save step by step, with the process dying at any    *)
(* point: run.pc is "idle" (manager loaded), "save" (entry appended in      *)
(* memory, _save called), "dump" (file opened with mode 'w', json.dump not  *)
(* finished), "dead" (process gone), "corrupt" (_load raised).              *)

\* lines 67-78: the entry is appended to self.data
SaveAppend(p, date, n) ==
    /\ run.pc = "idle" /\ hist.runs < MaxOps
    /\ manifest' = add_month_entry(manifest, p, DownloadInfo(p, date, n, n, "success"), now)
    /\ run' = [IdleRun EXCEPT !.pc = "save", !.plan = <<S3Key(p.year, p.month, 0)>>]
    /\ hist' = [hist EXCEPT !.runs = @ + 1]
    /\ UNCHANGED <<loaders, disk, now, source, store, local, planIn, planOut>>

\* _save: open(manifest_path, 'w') creates or truncates the file
SaveOpen ==
    /\ run.pc = "save"
    /\ disk' = [exists |-> TRUE, text |-> "partial", data |-> EmptyManifest]
    /\ run' = [run EXCEPT !.pc = "dump"]
    /\ UNCHANGED <<loaders, now, source, store, manifest, local, hist, planIn, planOut>>

\* _save: json.dump has written everything and the file is closed
SaveDump ==
    /\ run.pc = "dump"
    /\ disk' = [exists |-> TRUE, text |-> "json", data |-> manifest]
    /\ run' = IdleRun
    /\ UNCHANGED <<loaders, now, source, store, manifest, local, hist, planIn, planOut>>

\* the process dies: its memory is gone, the file stays as it is
Crash ==
    /\ run.pc \in {"idle", "save", "dump"}
    /\ manifest' = EmptyManifest
    /\ run' = [IdleRun EXCEPT !.pc = "dead"]
    /\ UNCHANGED <<loaders, disk, now, source, store, local, hist, planIn, planOut>>

\* a new process constructs ManifestManager: _load
Restart ==
    /\ run.pc = "dead"
    /\ IF Loadable(disk)
       THEN manifest' = _load(disk) /\ run' = IdleRun
       ELSE manifest' = manifest /\ run' = [IdleRun EXCEPT !.pc = "corrupt"]
    /\ UNCHANGED <<loaders, disk, now, source, store, local, hist, planIn, planOut>>

NextSave ==
    \/ \E p \in Periods, date \in ManDates, n \in 1..2 : SaveAppend(p, date, n)
    \/ SaveOpen
    \/ SaveDump
    \/ Crash
    \/ Restart

SpecSave == Init /\ [][NextSave]_vars

-----------------------------------------------------------------------------
(* One flow invocation at the level of the attempts of its tasks: the       *)
(* download task and the insert task are run again by the engine after an   *)
(* attempt raises, up to the retries of their decorators; an insert attempt *)
(* can raise before or after its rows have reached the table; the listing   *)
(* can hold a second key for a month.                                       *)

DownloadRetriesFive(mode) == 5

\* retries of the download task: download_file_task (bulk), download_s3_task (daily)
DownloadRetries(mode) == IF mode = "bulk" THEN 3 ELSE 2

\* an attempt of the download task raises (download_file has removed the
\* destination file) and the task runs again
DownloadRetry ==
    /\ run.pc = "download"
    /\ run.mode = "bulk" => (~SkipsToday /\ ~LocalCopyUsed)
    /\ run.attempt < DownloadRetries(run.mode)
    /\ local' = IF run.mode = "bulk" /\ local[CurPeriod].date = DateOf(run.today)
                THEN [local EXCEPT ![CurPeriod] = NoInfo]
                ELSE local
    /\ run' = [run EXCEPT !.attempt = @ + 1]
    /\ hist' = RetryHist("download")
    /\ UNCHANGED <<loaders, disk, now, source, store, manifest, planIn, planOut>>

\* the last attempt of the download task raises
DownloadGiveUp ==
    /\ run.attempt = DownloadRetries(run.mode)
    /\ DownloadFail

\* an attempt of the insert task raises after insert_df has written its rows:
\* the task runs again, or, after the last attempt, the period fails
InsertWriteThenRaise ==
    /\ run.pc = "insert"
    /\ run.info.cols
    /\ \E onEmpty \in {None, Epoch} :
         LET p == CurPeriod
             file == FileContent(p, run.info.n)
             res == insert_parquet_incremental(file, FileName(p, run.info.date),
                                               CurMaxDate(onEmpty))
         IN /\ res.inserted # {}
            /\ store' = InsertDf(store, res.inserted)
            /\ IF run.attempt < InsertRetries
               THEN /\ run' = [run EXCEPT !.attempt = @ + 1]
                    /\ hist' = [hist EXCEPT !.load = NoLoad, !.fail = "insert",
                                            !.wrote = @ \cup res.inserted,
                                            !.cur.added = @ + Cardinality(res.inserted)]
               ELSE /\ run' = Advance([run EXCEPT !.error_count =
                                         IF run.mode = "bulk" THEN @ + 1 ELSE @])
                    /\ hist' = [FailHist(p, "insert") EXCEPT
                                  !.cur.added = @ + Cardinality(res.inserted)]
    /\ UNCHANGED <<loaders, disk, now, source, manifest, local, planIn, planOut>>

\* keys of the listing, other than the canonical ones, that match FILE_PATTERN
AltKeys(src) == {S3Key(p.year, p.month, 1) : p \in {q \in {April} : src[q] > 0}}

\* one invocation is left to run; the objects are as ONS has published them
InitTask ==
    /\ now \in Instants
    /\ source \in [Periods -> 0..2]
    /\ store = EmptyBag
    /\ manifest = EmptyManifest
    /\ disk = NoFile
    /\ loaders = NoLoaders
    /\ local = [p \in Periods |-> NoInfo]
    /\ run = IdleRun
    /\ hist = [runs |-> MaxRuns - 1, load |-> NoLoad, fail |-> "none", wrote |-> {},
               cur |-> NoCur]
    /\ planIn = NoPlanIn
    /\ planOut = NoPlanOut

NextTask ==
    \/ StartDaily
    \/ \E s \in StartMonths, e \in EndMonths, f \in BOOLEAN, extra \in SUBSET AltKeys(source) :
         StartBulkOn(Listing(source) \cup extra, s, e, f)
    \/ DailyDownload
    \/ BulkSkip
    \/ BulkDownload
    \/ DownloadRetry
    \/ DownloadGiveUp
    \/ DailyInsert
    \/ BulkInsert
    \/ InsertRetry
    \/ InsertWriteThenRaise
    \/ InsertFail
    \/ Summarize

\* the engine runs every attempt it has scheduled, and every attempt ends
SpecTask == InitTask /\ [][NextTask]_vars /\ WF_vars(NextTask)

-----------------------------------------------------------------------------
(* The loader on its own: insert_parquet_incremental applied to a file of   *)
(* one row and a watermark, both drawn from the sets below (source          *)
(* timestamps from 2020 on: the flows treat earlier dates as invalid, and   *)
(* America/Sao_Paulo has had no daylight saving since 2019).                *)

TimeYears == {2023, 2024}

TimeMonths == {2, 6, 12}

TimeDays == {1, 28, 29, 30, 31}

TimeHours == {0, 20, 21, 23}

\* din_instante values of the source files
TimeInputs ==
    {t \in [year : TimeYears, month : TimeMonths, day : TimeDays, hour : TimeHours] :
        t.day <= DaysInMonth(t.year, t.month)}

\* watermarks handed to the loader (UTC)
TimeWatermarks == {None, DT(2024, 6, 1, 2), DT(2024, 6, 1, 3), DT(2024, 12, 31, 23)}

InitTime ==
    /\ now = DT(2024, 5, 1, 9)
    /\ source = [p \in Periods |-> 0]
    /\ store = EmptyBag
    /\ manifest = EmptyManifest
    /\ disk = NoFile
    /\ loaders = NoLoaders
    /\ local = [p \in Periods |-> NoInfo]
    /\ run = IdleRun
    /\ hist = [runs |-> 0, load |-> NoLoad, fail |-> "none", wrote |-> {}, cur |-> NoCur]
    /\ planIn \in {[kind |-> "load", t |-> t, max_date |-> w] :
                       t \in TimeInputs, w \in TimeWatermarks}
    /\ planOut = NoPlanOut

\* the one-row file is loaded into the empty table
ApplyLoad ==
    /\ planIn.kind = "load" /\ planOut.kind = "none"
    /\ LET res == insert_parquet_incremental({planIn.t}, FileName(MonthOf(planIn.t), 0),
                                             planIn.max_date)
       IN /\ store' = InsertDf(store, res.inserted)
          /\ planOut' = [kind |-> "load", rows |-> res.rows]
    /\ UNCHANGED <<loaders, disk, now, source, manifest, local, run, hist, planIn>>

NextTime == ApplyLoad

SpecTime == InitTime /\ [][NextTime]_vars

-----------------------------------------------------------------------------
(* Loads running side by side (overlapping flow invocations on one table):  *)
(* each load is an attempt of insert_clickhouse_task, which reads its       *)
(* watermark and later hands its frame to insert_df; nothing orders the     *)
(* steps of one load against those of another.                              *)

LoaderIds == 1..2

\* a load that has its file and has not read its watermark yet
NewLoader(mode, p, n) ==
    [pc |-> "read", mode |-> mode, period |-> p, n |-> n, max_date |-> None, before |-> 0]

\* number of loads that have inserted
InsertsDone == Cardinality({l \in LoaderIds : loaders[l].pc = "done"})

\* the watermark query of a load in the given mode for period p
WatermarkOf(st, mode, p, onEmpty) ==
    IF mode = "daily" THEN GlobalMax(st, onEmpty)
    ELSE Effective(ScopedMax(st, YM(p), onEmpty))

\* result.result_rows[0][0] of the watermark query
LoaderRead(l) ==
    /\ loaders[l].pc = "read"
    /\ \E onEmpty \in {None, Epoch} :
         loaders' = [loaders EXCEPT ![l].pc = "insert",
                       ![l].max_date = WatermarkOf(store, loaders[l].mode,
                                                   loaders[l].period, onEmpty),
                       ![l].before = InsertsDone]
    /\ UNCHANGED <<now, source, store, manifest, disk, local, run, hist, planIn, planOut>>

LoaderInsertGuarded(l) ==
    /\ loaders[l].pc = "insert"
    /\ LET ld == loaders[l]
           res == insert_parquet_incremental(FileContent(ld.period, ld.n),
                     FileName(ld.period, DateOf(now)),
                     WatermarkOf(store, ld.mode, ld.period, None))
       IN store' = InsertDf(store, res.inserted)
    /\ loaders' = [loaders EXCEPT ![l].pc = "done"]
    /\ UNCHANGED <<now, source, manifest, disk, local, run, hist, planIn, planOut>>

\* insert_parquet_incremental with the watermark read earlier
LoaderInsert(l) ==
    /\ loaders[l].pc = "insert"
    /\ LET ld == loaders[l]
           res == insert_parquet_incremental(FileContent(ld.period, ld.n),
                     FileName(ld.period, DateOf(now)), ld.max_date)
       IN store' = InsertDf(store, res.inserted)
    /\ loaders' = [loaders EXCEPT ![l].pc = "done"]
    /\ UNCHANGED <<now, source, manifest, disk, local, run, hist, planIn, planOut>>

\* two loads, each of a file of one or two rows, on an empty table
InitConc ==
    /\ now = DT(2024, 6, 1, 9)
    /\ source = [p \in Periods |-> Len(FileRows(p))]
    /\ store = EmptyBag
    /\ manifest = EmptyManifest
    /\ disk = NoFile
    /\ local = [p \in Periods |-> NoInfo]
    /\ run = IdleRun
    /\ hist = [runs |-> 0, load |-> NoLoad, fail |-> "none", wrote |-> {}, cur |-> NoCur]
    /\ planIn = NoPlanIn
    /\ planOut = NoPlanOut
    /\ loaders \in [LoaderIds -> {NewLoader(mode, p, n) :
                                     mode \in {"daily", "bulk"}, p \in Periods, n \in 1..2}]

NextConc == \E l \in LoaderIds : LoaderRead(l) \/ LoaderInsert(l)

SpecConc == InitConc /\ [][NextConc]_vars

-----------------------------------------------------------------------------
(* Properties.                                                             *)

RECURSIVE MonthRange(_, _)
\* every calendar month from a through b, in order
MonthRange(a, b) ==
    IF YM(a) > YM(b) THEN <<>> ELSE <<a>> \o MonthRange(NextMonth(a), b)

SeqSet(q) == {q[j] : j \in 1..Len(q)}

\* the rows of a file that are strictly newer than the watermark w (all of them without one)
NewerThan(file, w) == {ToUTC(t) : t \in {u \in file : IsNone(w) \/ Key(ToUTC(u)) > Key(w)}}

InStore(t) == \E r \in BagToSet(store) : r.din_instante = t

\* C1: an incremental load writes exactly the rows of the file whose UTC timestamp
\* is strictly greater than the watermark it was given (all rows without a
\* watermark), each once, and no row at or below the watermark.
C1_LoadWritesExactlyNewRows ==
    hist.load.valid =>
        {r.din_instante : r \in hist.load.written}
            = NewerThan(hist.load.file, hist.load.max_date)

\* C2: an invocation that immediately repeats a failure-free one over an unchanged
\* source adds no row to the table, and each period's downloads list grows by at
\* most one entry, which records rows_inserted = 0 (daily and bulk).
C2_RepeatedRunAddsNothing ==
    (run.pc = "done" /\ hist.cur.repeat /\ hist.cur.failed = {} /\ source = hist.cur.src0) =>
        /\ hist.cur.added = 0
        /\ \A p \in Periods :
             /\ ManLen(manifest, p) <= hist.cur.man0[p] + 1
             /\ ManLen(manifest, p) > hist.cur.man0[p] =>
                  manifest[p].downloads[ManLen(manifest, p)].rows_inserted = 0

\* C3: a bulk load of a period whose file is already fully in the table inserts
\* zero rows (every row is at or below the period-scoped watermark).
C3_BulkReloadInsertsNothing ==
    (hist.load.valid /\ hist.load.mode = "bulk" /\ hist.load.present) =>
        /\ hist.load.written = {}
        /\ hist.load.rows = 0
        /\ NewerThan(hist.load.file, hist.load.max_date) = {}

\* C4: when a daily invocation ends without a failed period, every row that was
\* in a source file at its start and is newer than the watermark it read at its
\* start is in the table.
C4_DailyRunMissesNoRow ==
    (run.pc = "done" /\ run.mode = "daily" /\ hist.cur.failed = {}) =>
        \A p \in Periods :
            \A t \in NewerThan(FileContent(p, hist.cur.src0[p]), hist.cur.wm0) : InStore(t)

\* C5: a period that failed in a daily invocation while a later period succeeded
\* is planned by the next daily invocation, and when that one ends without a
\* failure the rows of the period are in the table.
C5_DailyGapIsClosed ==
    (run.pc = "done" /\ run.mode = "daily" /\ hist.cur.failed = {}) =>
        \A p \in hist.cur.gap :
            /\ p \in {KeyPeriod(k) : k \in SeqSet(run.plan)}
            /\ AllPresent(store, FileContent(p, hist.cur.src0[p]))

\* C6: the watermark never decreases: after any step of any flow, the maximum
\* stored timestamp of the table, and of each month of it, is at least what it
\* was before, so an invocation never reads a smaller watermark than an earlier one.
C6_WatermarkMonotonic ==
    [][store' # store =>
        /\ Key(GlobalMax(store', None)) >= Key(GlobalMax(store, None))
        /\ \A p \in Periods \cup {NextMonth(May)} :
             Key(ScopedMax(store', YM(p), None)) >= Key(ScopedMax(store, YM(p), None))]_vars

\* a second invocation read a watermark left by an earlier one and inserted rows above it
C6_Witness ==
    /\ hist.runs >= 2
    /\ ~IsNone(hist.cur.wm0)
    /\ hist.cur.added > 0
    /\ Key(GlobalMax(store, None)) > Key(hist.cur.wm0)

\* C7: for a watermark and a 'now' with watermark <= now, the daily planner
\* returns exactly the months from the watermark's month through the month of
\* 'now'; the last planned month is the current month.
C7_DailyPlanReachesCurrentMonth ==
    (/\ planOut.kind = "daily"
     /\ ~IsNone(planIn.last_date) /\ planIn.last_date.year >= MinValidYear
     /\ Key(planIn.last_date) <= Key(planIn.today)) =>
        planOut.months = MonthRange(MonthOf(planIn.last_date), MonthOf(planIn.today))

\* C8: without a watermark (None, or a stored maximum before 2020) the daily
\* planner plans every month from the data start (2024-04) through the current month.
C8_NoWatermarkPlansFromDataStart ==
    (/\ planOut.kind = "daily"
     /\ (IsNone(planIn.last_date) \/ planIn.last_date.year < MinValidYear)) =>
        planOut.months = MonthRange([year |-> 2024, month |-> 4], MonthOf(planIn.today))

\* a 1970 maximum was planned from 2024-04 through July 2024
C8_Witness ==
    /\ planOut.kind = "daily"
    /\ planIn.last_date.year = 1970
    /\ planIn.today.year = 2024 /\ planIn.today.month = 7
    /\ Len(planOut.months) = 4
    /\ planOut.months[1] = [year |-> 2024, month |-> 4]

\* the months of the explicit range other than the current month
RangeMonths == SeqSet(MonthRange(planIn.start_month, planIn.end_month)) \ {MonthOf(planIn.today)}

PlannedPeriods == {KeyPeriod(k) : k \in SeqSet(planOut.files)}

\* C9 as stated: with an explicit range the bulk plan holds every month from
\* start_month to end_month except the current one, with or without a file.
C9_BulkPlanIsWholeRange ==
    (planOut.kind = "bulk" /\ planIn.end_month # NoMonth) =>
        PlannedPeriods = RangeMonths

\* C9 as amended: with an explicit range the bulk plan holds exactly the months
\* from start_month to end_month, other than the current one, for which the
\* listing has a matching key; a month of the range without a file is not planned.
C9_BulkPlanIsListedRange ==
    (planOut.kind = "bulk" /\ planIn.end_month # NoMonth) =>
        /\ PlannedPeriods \subseteq RangeMonths
        /\ \A m \in RangeMonths :
             m \in PlannedPeriods <=> \E k \in planIn.s3_files : KeyPeriod(k) = m
        /\ SeqSet(planOut.files) \subseteq planIn.s3_files

\* a non-empty plan over a range one month of which has no file
C9_Witness ==
    /\ planOut.kind = "bulk" /\ planIn.end_month # NoMonth
    /\ planOut.files # <<>>
    /\ \E m \in RangeMonths : m \notin PlannedPeriods

\* C10: the current calendar month is never among the periods of a bulk plan,
\* whatever start_month, end_month and the listing are.
C10_BulkPlanExcludesCurrentMonth ==
    planOut.kind = "bulk" => MonthOf(planIn.today) \notin PlannedPeriods

\* the listing has a file for the current month, which lies in the range, and
\* other months were planned
C10_Witness ==
    /\ planOut.kind = "bulk"
    /\ planOut.files # <<>>
    /\ \E k \in planIn.s3_files : KeyPeriod(k) = MonthOf(planIn.today)
    /\ YM(planIn.start_month) <= YM(MonthOf(planIn.today))
    /\ YM(MonthOf(planIn.today)) <= YM(planIn.end_month)

\* the month before m in the calendar
PrevMonthOf(m) == CHOOSE q \in {[year |-> y, month |-> k] : y \in {m.year - 1, m.year}, k \in 1..12} :
                    NextMonth(q) = m

\* C11: in bulk mode with end_month unset, end_month resolves to the calendar
\* month immediately before the current one for every 'now' (in January: December
\* of the previous year), and a listed file of that month in the range is planned.
C11_EndMonthDefaultsToPreviousMonth ==
    (planOut.kind = "bulk" /\ planIn.end_month = NoMonth) =>
        /\ planOut.end_month.month \in 1..12
        /\ NextMonth(planOut.end_month) = MonthOf(planIn.today)
        /\ \A k \in planIn.s3_files :
             (KeyPeriod(k) = PrevMonthOf(MonthOf(planIn.today))
                /\ YM(planIn.start_month) <= YM(KeyPeriod(k))) => k \in SeqSet(planOut.files)
        /\ \A k \in SeqSet(planOut.files) : YM(KeyPeriod(k)) <= YM(PrevMonthOf(MonthOf(planIn.today)))

\* a January 'now' with end_month unset: December of the previous year was planned
C11_Witness ==
    /\ planOut.kind = "bulk" /\ planIn.end_month = NoMonth
    /\ planIn.today.month = 1
    /\ planOut.end_month = [year |-> planIn.today.year - 1, month |-> 12]
    /\ \E k \in SeqSet(planOut.files) : KeyPeriod(k) = planOut.end_month

\* the periods of the plan, in the order the loop takes them
PlanPeriods ==
    IF planOut.kind = "daily" THEN planOut.months
    ELSE [j \in 1..Len(planOut.files) |-> KeyPeriod(planOut.files[j])]

\* C12: in both modes the planned periods are processed in strictly ascending
\* chronological order: a period never comes after a chronologically later (or
\* the same) period in the order of the loop.
C12_PlanStrictlyAscending ==
    planOut.kind \in {"daily", "bulk"} =>
        \A i, j \in 1..Len(PlanPeriods) : i < j => YM(PlanPeriods[i]) < YM(PlanPeriods[j])

\* C13: a bulk invocation whose start_month is later than its end_month has an
\* empty plan; it ends at once without an error, downloads and inserts nothing
\* and leaves the manifest as it was.
C13_ReversedRangeDoesNothing ==
    (run.mode = "bulk" /\ YM(run.start_month) > YM(ResolveEndMonth(run.end_month, run.today))) =>
        /\ run.plan = <<>>
        /\ run.pc = "done"
        /\ run.success_count = 0 /\ run.skip_count = 0 /\ run.error_count = 0
        /\ run.total_rows = 0
        /\ hist.cur.added = 0 /\ hist.cur.ok = {} /\ hist.cur.failed = {}
        /\ \A p \in Periods : ManLen(manifest, p) = hist.cur.man0[p]

\* a reversed explicit range over a listing that has a file at or before end_month
C13_Witness ==
    /\ run.mode = "bulk" /\ run.pc = "done"
    /\ run.start_month = May /\ run.end_month = April
    /\ source[April] > 0
    /\ run.plan = <<>>

\* the manifest holds, for the period, an entry whose attempt date is today and
\* whose recorded outcome is success
HasSuccessToday(data, year_month, today) ==
    /\ year_month \in DOMAIN data
    /\ \E j \in 1..Len(data[year_month].downloads) :
         /\ data[year_month].downloads[j].download_date = today
         /\ data[year_month].downloads[j].status = "success"

\* the loop is at a period and the step it takes is the skip
SkipTaken == run.pc = "download" /\ run.mode = "bulk" /\ SkipsToday

\* C14: (force off) the period the loop is at is skipped if and only if the
\* manifest holds an entry for it of today's date whose outcome was success; a
\* period whose last recorded attempt is of an earlier day is not skipped.
C14_SkipIffSucceededToday ==
    (run.pc = "download" /\ ~run.force) =>
        /\ SkipTaken <=> HasSuccessToday(manifest, CurPeriod, DateOf(run.today))
        /\ (/\ CurPeriod \in DOMAIN manifest
            /\ manifest[CurPeriod].last_download < DateOf(run.today)) => ~SkipTaken

\* C15: in every mode (force off) a period reaches its download and insert only
\* after passing the skip check: a period that is_processed_today reports as
\* handled today is never downloaded or inserted, in particular not by a daily
\* invocation started later on the day of a successful one.
C15_SkipCheckBeforeLoad ==
    (run.pc = "insert" /\ ~run.force) =>
        ~is_processed_today(manifest, CurPeriod, DateOf(run.today))

\* C16: a period recorded in the manifest whose source fingerprint differs from
\* the recorded one is not skipped when the loop reaches it, even on the day of
\* its last recorded attempt: it is downloaded and ingested again.
C16_ChangedFingerprintIsReingested ==
    (/\ run.pc = "download"
     /\ detect_changes(manifest, CurPeriod, Md5(CurPeriod, SourceN(source, CurPeriod)))) =>
        ~SkipTaken

\* the fingerprints a manifest can record (0: none)
Fingerprints == {0} \cup {Md5(p, n) : p \in Periods, n \in 1..2}

\* the manifest with every fingerprint recorded for the period replaced by m
WithFingerprint(data, year_month, m) ==
    IF year_month \notin DOMAIN data THEN data
    ELSE LET old == data[year_month].downloads
         IN [data EXCEPT ![year_month].last_md5 = m,
                         ![year_month].downloads =
                             [j \in 1..Len(old) |-> [old[j] EXCEPT !.md5 = m]]]

\* C17: the skip decision does not depend on the fingerprint: whatever the
\* source holds, a manifest that agrees with the actual one on the period's
\* attempt dates and differs in its recorded fingerprint gives the same
\* skip-or-load decision for the period the loop is at.
C17_SkipIgnoresFingerprint ==
    run.pc = "download" =>
        \A m \in Fingerprints :
            (/\ run.mode = "bulk" /\ ~run.force
             /\ is_processed_today(WithFingerprint(manifest, CurPeriod, m),
                                    CurPeriod, DateOf(run.today)))
                <=> SkipTaken

\* a period is skipped while the source's fingerprint differs from the recorded one
C17_Witness ==
    /\ SkipTaken
    /\ manifest[CurPeriod].last_md5 # Md5(CurPeriod, SourceN(source, CurPeriod))
    /\ \E m \in Fingerprints : WithFingerprint(manifest, CurPeriod, m) # manifest

\* C18: every load that completes (bulk or daily, also one that inserts zero
\* rows) appends exactly one entry to the manifest for its period, within the
\* same step of the loop, so before the next period starts; the entry records
\* the number of rows of the load.
C18_EveryLoadIsRecordedOnce ==
    [][hist'.load.valid =>
        LET p == hist'.load.period
        IN /\ ManLen(manifest', p) = ManLen(manifest, p) + 1
           /\ manifest'[p].downloads[ManLen(manifest', p)].rows_inserted = hist'.load.rows
           /\ \A q \in Periods \ {p} : ManLen(manifest', q) = ManLen(manifest, q)]_vars

\* C19: the manifest changes only in the step in which the insert of a period
\* completes, after the download of that period completed in the same
\* invocation, and then by one entry appended for that period; a step in which
\* the download or the insert of a period fails leaves the manifest unchanged.
C19_ManifestOnlyAfterCompletedLoad ==
    [][/\ manifest' # manifest =>
            /\ run.pc = "insert" /\ run.info # NoInfo
            /\ hist'.load.valid /\ hist'.load.period = CurPeriod
            /\ DOMAIN manifest' = DOMAIN manifest \cup {CurPeriod}
            /\ \A q \in DOMAIN manifest \ {CurPeriod} : manifest'[q] = manifest[q]
            /\ ManLen(manifest', CurPeriod) = ManLen(manifest, CurPeriod) + 1
            /\ SubSeq(manifest'[CurPeriod].downloads, 1, ManLen(manifest, CurPeriod))
                 = get_month_history(manifest, CurPeriod)
       /\ hist'.cur.failed \ hist.cur.failed # {} => manifest' = manifest]_vars

\* an invocation in which one period failed and another was loaded: the failed
\* one has no new entry, the loaded one has one
C19_Witness ==
    /\ \E p \in hist.cur.failed : ManLen(manifest, p) = hist.cur.man0[p]
    /\ \E q \in hist.cur.ok : ManLen(manifest, q) = hist.cur.man0[q] + 1
    /\ run.pc = "done"

\* the sequence a is an initial part of the sequence b
IsPrefix(a, b) == Len(a) <= Len(b) /\ SubSeq(b, 1, Len(a)) = a

C21_LastFieldsAreLastEntry ==
    \A p \in Periods \cap DOMAIN manifest :
        LET downloads == manifest[p].downloads
        IN /\ Len(downloads) >= 1
           /\ manifest[p].last_download = downloads[Len(downloads)].download_date
           /\ manifest[p].last_md5 = downloads[Len(downloads)].md5

\* a period whose two entries differ in date and in fingerprint
C21_Witness ==
    \E p \in Periods \cap DOMAIN manifest :
        /\ Len(manifest[p].downloads) = 2
        /\ manifest[p].downloads[1].download_date # manifest[p].downloads[2].download_date
        /\ manifest[p].downloads[1].md5 # manifest[p].downloads[2].md5

\* the entries of period q appended before the attempt in flight
PriorEntries(q) ==
    IF run.pc \in {"save", "dump"} /\ q = CurPeriod
    THEN SubSeq(manifest[q].downloads, 1, Len(manifest[q].downloads) - 1)
    ELSE manifest[q].downloads

\* C22: at every point of an append and of the rewrite that follows it, the
\* manifest file is loadable and holds every entry appended before the attempt
\* in flight (so a crash at that point loses nothing else); once the append
\* has returned the file holds the whole manifest.
C22_PersistedManifestSurvivesCrash ==
    run.pc \in {"idle", "save", "dump"} =>
        /\ Loadable(disk)
        /\ \A q \in Periods \cap DOMAIN manifest :
             IsPrefix(PriorEntries(q), get_month_history(_load(disk), q))
        /\ run.pc = "idle" => _load(disk) = manifest

\* C23: a load that fails because a required column is missing is attempted once
\* for its period: after the required-column check has raised, the insert task is
\* not run again for that period.
C23_SchemaFailureNotRetried ==
    hist.fail = "schema" => ~(run.pc = "insert" /\ run.attempt > 0)

\* C24: while the file of the period the loop is at lacks a required column, no
\* step writes a row or appends a manifest entry, and when that period is given up
\* the loop goes on to the next planned period (to the summary after the last).
C24_SchemaFailureIsolated ==
    [][(run.pc = "insert" /\ ~run.info.cols) =>
          /\ store' = store
          /\ manifest' = manifest
          /\ run'.plan = run.plan
          /\ run'.i # run.i =>
                /\ run'.i = run.i + 1
                /\ run'.pc = IF run.i < Len(run.plan) THEN "download" ELSE "summary"]_vars

\* a run in which one period failed on the required-column check and another
\* period has just completed with rows inserted
C24_Witness ==
    /\ hist.cur.broken # {}
    /\ hist.load.valid /\ hist.load.rows > 0
    /\ hist.load.period \notin hist.cur.broken
    /\ store # EmptyBag
    /\ \A q \in hist.cur.broken : ManLen(manifest, q) = hist.cur.man0[q]

\* sum of rows_inserted over the entries of a download history from position k on
RECURSIVE RowsFrom(_, _)
RowsFrom(downloads, k) ==
    IF k > Len(downloads) THEN 0
    ELSE downloads[k].rows_inserted + RowsFrom(downloads, k + 1)

RECURSIVE RowsRecorded(_)
\* sum of rows_inserted over the manifest entries appended by the run, for the periods in P
RowsRecorded(P) ==
    IF P = {} THEN 0
    ELSE LET q == CHOOSE x \in P : TRUE
         IN RowsFrom(get_month_history(manifest, q), hist.cur.man0[q] + 1)
            + RowsRecorded(P \ {q})

\* C25: when a flow has returned its summary, the loop has gone through every
\* planned period, the succeeded, skipped and failed counts add up to the number of
\* planned periods, the failed count is non-zero if a period failed, and the total
\* of rows is the sum of the rows_inserted recorded for the periods that succeeded.
C25_SummaryAccountsForEveryPeriod ==
    (run.pc = "done" /\ run.returned = "summary") =>
        /\ run.i = Len(run.plan) + 1
        /\ run.success_count + run.skip_count + run.error_count = Len(run.plan)
        /\ hist.cur.failed # {} => run.error_count > 0
        /\ run.total_rows = RowsRecorded(Periods)

\* the insert task is between two of its attempts
Retrying == run.pc = "insert" /\ run.attempt > 0

\* C26: once the manifest or the watermark could not be read (the task's own
\* retries being over), the flow has raised: it is not in its period loop and it
\* returns no summary.
C26_RunLevelErrorAbortsRun ==
    (hist.fail \in {"manifest", "watermark"} /\ ~Retrying) =>
        (run.pc = "done" /\ run.returned = "raised")

\* C27: a load whose watermark filter retains no rows writes nothing, returns 0
\* rows, and is counted as one more succeeded period: the skipped and failed counts
\* and the total of rows stay as they were.
C27_EmptyFilterIsSuccessWithZeroRows ==
    [][(hist'.load.valid /\ FilteredFrame(hist'.load.file, hist'.load.max_date) = {}) =>
          /\ store' = store
          /\ hist'.load.rows = 0
          /\ run'.success_count = run.success_count + 1
          /\ run'.skip_count = run.skip_count
          /\ run'.error_count = run.error_count
          /\ run'.total_rows = run.total_rows]_vars

\* a load has just ended whose file held nothing newer than the watermark
C27_Witness ==
    /\ hist.load.valid
    /\ ~IsNone(hist.load.max_date)
    /\ FilteredFrame(hist.load.file, hist.load.max_date) = {}
    /\ hist.load.rows = 0
    /\ run.success_count > 0

\* C28: every row a load writes to the table carries, in _source_file, the name
\* of the versioned local file it was loaded from.
C28_WrittenRowsCarrySourceFile ==
    hist.load.valid =>
        \A r \in hist.load.written :
            r.source_file = FileName(hist.load.period, DateOf(run.today))

\* C29: the count a load returns is the number of rows it added to the table.
C29_ReturnedCountIsRowsAdded ==
    hist.load.valid => hist.load.rows = Cardinality(hist.load.written)

\* C30: the file handed to the insert task is the object as it is in the Object
\* Store when the period is processed, in both flows, a local copy of the same day
\* notwithstanding.
C30_EveryLoadFetchesAfresh ==
    run.pc = "insert" => run.info.n = SourceN(source, CurPeriod)

\* C31: when the bulk download finds the destination file of the day and force is
\* off, download_file returns nothing and the period is reported as skipped: the
\* skipped count goes up by one, the insert task is not run, and the loop moves on.
C31_ExistingFileIsReportedSkipped ==
    [][(run.pc = "download" /\ run.mode = "bulk" /\ ~SkipsToday /\ LocalCopyUsed) =>
          /\ run'.skip_count = run.skip_count + 1
          /\ run'.i = run.i + 1
          /\ run'.pc # "insert"]_vars

\* C32: at a bulk period which the manifest records as processed today, a run with
\* force on does not skip: the step taken leaves the skipped count alone, and the
\* file it hands to the insert task is the one just fetched from the Object Store;
\* a run with force off skips it, writing nothing.
C32_ForceBypassesTodaySkip ==
    [][(/\ run.pc = "download" /\ run.mode = "bulk"
        /\ is_processed_today(manifest, CurPeriod, DateOf(run.today))) =>
          IF run.force
          THEN /\ run'.skip_count = run.skip_count
               /\ run'.pc = "insert" =>
                     /\ run'.info.n = SourceN(source, CurPeriod)
                     /\ local'[CurPeriod] = run'.info
          ELSE /\ run'.skip_count = run.skip_count + 1
               /\ run'.i = run.i + 1
               /\ store' = store /\ manifest' = manifest /\ local' = local]_vars

\* a forced bulk run has just loaded a period that already had an entry of today
C32_Witness ==
    /\ run.mode = "bulk" /\ run.force
    /\ hist.load.valid
    /\ hist.cur.man0[hist.load.period] > 0
    /\ ManLen(manifest, hist.load.period) = hist.cur.man0[hist.load.period] + 1
    /\ manifest[hist.load.period].downloads[hist.cur.man0[hist.load.period]].download_date
         = DateOf(run.today)

LoadAlone(st, ld) ==
    InsertDf(st, insert_parquet_incremental(FileContent(ld.period, ld.n),
                    FileName(ld.period, DateOf(now)),
                    WatermarkOf(st, ld.mode, ld.period, None)).inserted)

\* the table after the two loads run one after the other, lower period first
InPeriodOrder ==
    LET a == CHOOSE l \in LoaderIds :
                 \A k \in LoaderIds : YM(loaders[l].period) <= YM(loaders[k].period)
        b == CHOOSE l \in LoaderIds : l # a
    IN LoadAlone(LoadAlone(EmptyBag, loaders[a]), loaders[b])

AllLoaded == \A l \in LoaderIds : loaders[l].pc = "done"

\* C34: when two loads of distinct periods have both ended, whatever the order of
\* their watermark reads and inserts was, the table holds exactly the rows it
\* holds after the same two loads run one after the other in period order.
C34_DistinctPeriodsInterleaveSafely ==
    (AllLoaded /\ loaders[1].period # loaders[2].period) => store = InPeriodOrder

\* C35: when two loads of the same period have both read the watermark before
\* either inserted, every row of the file they have in common is in the table
\* more than once.
C35_SamePeriodLoadsDuplicate ==
    (/\ AllLoaded
     /\ loaders[1].period = loaders[2].period
     /\ \A l \in LoaderIds : loaders[l].before = 0) =>
        \A t \in ConvertedFrame(FileContent(loaders[1].period, 1)) :
            CopiesIn(Row(t, NoFileName), store) >= 2

\* two loads of the same period, neither having seen the other's insert, have ended
C35_Witness ==
    /\ AllLoaded
    /\ loaders[1].period = loaders[2].period
    /\ \A l \in LoaderIds : loaders[l].before = 0
    /\ \E r \in BagToSet(store) : CopiesIn(r, store) >= 2

RECURSIVE DaysBeforeMonth(_, _)
\* days of year y before its month m
DaysBeforeMonth(y, m) ==
    IF m = 1 THEN 0 ELSE DaysInMonth(y, m - 1) + DaysBeforeMonth(y, m - 1)

\* hours from 0001-01-01 00:00 to d on the proleptic Gregorian calendar
HoursOf(d) ==
    LET y == d.year - 1
    IN (365 * y + (y \div 4) - (y \div 100) + (y \div 400)
          + DaysBeforeMonth(d.year, d.month) + (d.day - 1)) * 24 + d.hour

\* d is a date of the calendar
ValidDate(d) ==
    /\ d.month \in 1..12 /\ d.day \in 1..DaysInMonth(d.year, d.month) /\ d.hour \in 0..23

\* d - timedelta(hours = h), for 0 <= h <= 24
SubHours(d, h) ==
    IF d.hour >= h THEN [d EXCEPT !.hour = d.hour - h]
    ELSE IF d.day > 1 THEN [d EXCEPT !.day = d.day - 1, !.hour = d.hour + 24 - h]
    ELSE IF d.month > 1
         THEN [d EXCEPT !.month = d.month - 1, !.day = DaysInMonth(d.year, d.month - 1),
                        !.hour = d.hour + 24 - h]
         ELSE [d EXCEPT !.year = d.year - 1, !.month = 12, !.day = 31,
                        !.hour = d.hour + 24 - h]

\* C36: the loader keeps a source row exactly when its timestamp plus 3 hours is
\* later than the watermark, and the row it stores is the calendar date 3 hours
\* after the source timestamp (2024-06-01 00:00 is stored as 2024-06-01 03:00);
\* that value less 3 hours is the source timestamp again.
C36_TimestampShiftedThreeHoursOnce ==
    planOut.kind = "load" =>
        LET t == planIn.t
            w == planIn.max_date
            kept == IsNone(w) \/ HoursOf(t) + 3 > HoursOf(w)
        IN /\ planOut.rows = (IF kept THEN 1 ELSE 0)
           /\ kept => /\ Cardinality(BagToSet(store)) = 1
                       /\ \A r \in BagToSet(store) :
                            /\ ValidDate(r.din_instante)
                            /\ HoursOf(r.din_instante) = HoursOf(t) + 3
                            /\ SubHours(r.din_instante, 3) = t
                            /\ t = DT(2024, 6, 1, 0) => r.din_instante = DT(2024, 6, 1, 3)
           /\ ~kept => store = EmptyBag

\* the row of 2024-06-01 00:00 has been loaded past a watermark of 02:00 UTC
C36_Witness ==
    /\ planOut.kind = "load"
    /\ planIn.t = DT(2024, 6, 1, 0)
    /\ planIn.max_date = DT(2024, 6, 1, 2)
    /\ planOut.rows = 1
    /\ Row(DT(2024, 6, 1, 3), NoFileName) \in BagToSet(store)

\* C37: an attempt of the insert task that follows attempts whose rows reached the
\* table before they raised writes none of those rows again.
C37_RetryAfterWriteAddsNoDuplicate ==
    [][(run.pc = "insert" /\ hist.wrote # {}) =>
          \A r \in hist.wrote : CopiesIn(r, store') = CopiesIn(r, store)]_vars

\* C38: when a bulk download fails, no file is left at the destination path (the
\* versioned name of the day), so a later call without force finds nothing there
\* to take for a complete download.
C38_FailedDownloadLeavesNoFile ==
    [][(run.pc = "download" /\ run.mode = "bulk" /\ hist'.fail = "download") =>
          /\ local'[CurPeriod].date # DateOf(run.today)
          /\ \A q \in Periods \ {CurPeriod} : local'[q] = local[q]]_vars

\* the download of a forced bulk run has just failed for a period whose file had
\* been downloaded and loaded earlier the same day
C38_Witness ==
    /\ run.mode = "bulk" /\ run.force
    /\ hist.fail = "download"
    /\ run.i > 1
    /\ LET p == KeyPeriod(run.plan[run.i - 1])
       IN /\ is_processed_today(manifest, p, DateOf(run.today))
          /\ manifest[p].downloads[ManLen(manifest, p)].status = "success"
          /\ local[p] = NoInfo

\* C39: within one bulk run no period is downloaded and inserted twice: a load
\* that completes is never the load of a period that this run has loaded already.
C39_BulkRunLoadsPeriodOnce ==
    [][(run.mode = "bulk" /\ run.pc = "insert" /\ hist'.load.valid) =>
          CurPeriod \notin hist.cur.ok]_vars

\* C40: detect_changes(period, md5) returns true exactly when the manifest
\* holds, for that key, an entry with a non-empty last_md5 that differs from
\* md5; it returns false for a key with no entry; and the call leaves the
\* manifest in memory and the manifest file as they were.
C40_DetectChangesComparesAndKeeps ==
    [][planOut'.kind = "detect_changes" =>
          LET k == planOut'.args.year_month
              md5 == planOut'.args.new_md5
              recorded == /\ k \in DOMAIN manifest
                          /\ "last_md5" \in DOMAIN manifest[k]
                          /\ manifest[k].last_md5 # 0
          IN /\ planOut'.result = (recorded /\ manifest[k].last_md5 # md5)
             /\ (k \notin DOMAIN manifest => planOut'.result = FALSE)
             /\ manifest' = manifest
             /\ disk' = disk]_vars

\* a call that answered true for a period whose recorded fingerprint differs,
\* with a per-date entry (no last_md5) in the same manifest
C40_Witness ==
    /\ planOut.kind = "detect_changes"
    /\ planOut.result = TRUE
    /\ planOut.args.year_month \in Periods \cap DOMAIN manifest
    /\ manifest[planOut.args.year_month].last_md5 # planOut.args.new_md5
    /\ \E d \in DateKeys : d \in DOMAIN manifest


=============================================================================
